---- MODULE Spec2Model ----
(***************************************************************************)
(* Badminton Buddies (src/badminton_app.py): a Streamlit script that keeps *)
(* one JSON document {buddies, sessions} in cell A1 of a Google Sheet.     *)
(* Every script run loads the document, renders the page for the role that *)
(* logged in, runs at most one button handler on its in-memory copy and    *)
(* saves the whole document back.                                          *)
(*                                                                         *)
(* Text is modelled as sequences of code points ("a" is <<97>>), dates as  *)
(* records, and money as IEEE-754 binary64 values (Python float): a sign,  *)
(* a 53-bit significand held in base-2^13 limbs (least significant first)  *)
(* and the exponent of the significand's last bit.                         *)
(***************************************************************************)
EXTENDS Integers, Sequences, FiniteSets, TLC

VARIABLES
    cell,       \* content of cell A1 of the sheet "Badminton DB"
    backend,    \* what the Google connection does when it is used
    pc,         \* per browser session: where its current script run stands
    data,       \* per browser session: the module-level `data` of its run
    last        \* the latest step: handler, session, inputs, message shown

vars == <<cell, backend, pc, data, last>>

----------------------------------------------------------------------------
(* Python float: binary64 arithmetic, round to nearest, ties to even.      *)

MantBits == 53

LimbBits == 13

Limb == 2^LimbBits

Pow2(k) == 2^k

RECURSIVE IntBitLen(_)
IntBitLen(k) == IF k = 0 THEN 0 ELSE 1 + IntBitLen(k \div 2)

RECURSIVE NFromInt(_)
NFromInt(k) == IF k = 0 THEN <<>> ELSE <<k % Limb>> \o NFromInt(k \div Limb)

RECURSIVE NTrim(_)
NTrim(a) == IF a # <<>> /\ a[Len(a)] = 0 THEN NTrim(SubSeq(a, 1, Len(a) - 1)) ELSE a

NBitLen(a) == IF a = <<>> THEN 0 ELSE LimbBits * (Len(a) - 1) + IntBitLen(a[Len(a)])

RECURSIVE NMulSmall(_, _, _)
NMulSmall(a, n, carry) ==
    IF a = <<>> THEN NFromInt(carry)
    ELSE LET t == Head(a) * n + carry
         IN  <<t % Limb>> \o NMulSmall(Tail(a), n, t \div Limb)

\* <<quotient, remainder>> of a by the small number n
RECURSIVE NDivSmall(_, _)
NDivSmall(a, n) ==
    IF a = <<>> THEN <<<<>>, 0>>
    ELSE LET hi  == NDivSmall(Tail(a), n)
             cur == hi[2] * Limb + Head(a)
         IN  <<NTrim(<<cur \div n>> \o hi[1]), cur % n>>

RECURSIVE NAdd(_, _, _)
NAdd(a, b, carry) ==
    IF a = <<>> /\ b = <<>> THEN NFromInt(carry)
    ELSE LET t == (IF a = <<>> THEN 0 ELSE Head(a))
                  + (IF b = <<>> THEN 0 ELSE Head(b)) + carry
         IN  <<t % Limb>> \o NAdd(IF a = <<>> THEN a ELSE Tail(a),
                                  IF b = <<>> THEN b ELSE Tail(b), t \div Limb)

RECURSIVE NSubRaw(_, _, _)
NSubRaw(a, b, borrow) ==
    IF a = <<>> THEN <<>>
    ELSE LET t == Head(a) - (IF b = <<>> THEN 0 ELSE Head(b)) - borrow
         IN  <<IF t < 0 THEN t + Limb ELSE t>>
               \o NSubRaw(Tail(a), IF b = <<>> THEN b ELSE Tail(b),
                          IF t < 0 THEN 1 ELSE 0)

NSub(a, b) == NTrim(NSubRaw(a, b, 0))

RECURSIVE NLess(_, _)
NLess(a, b) ==
    IF Len(a) # Len(b) THEN Len(a) < Len(b)
    ELSE /\ a # <<>>
         /\ \/ a[Len(a)] < b[Len(b)]
            \/ /\ a[Len(a)] = b[Len(b)]
               /\ NLess(SubSeq(a, 1, Len(a) - 1), SubSeq(b, 1, Len(b) - 1))

NShl(a, k) ==
    IF a = <<>> THEN a
    ELSE [i \in 1..(k \div LimbBits) |-> 0] \o NMulSmall(a, Pow2(k % LimbBits), 0)

\* <<floor(a / 2^k), whether a nonzero bit was shifted out>>
NShr(a, k) ==
    LET w    == k \div LimbBits
        low  == SubSeq(a, 1, IF w < Len(a) THEN w ELSE Len(a))
        high == SubSeq(a, w + 1, Len(a))
        qr   == NDivSmall(high, Pow2(k % LimbBits))
    IN  <<qr[1], qr[2] # 0 \/ \E i \in 1..Len(low) : low[i] # 0>>

FZero == [sign |-> 0, exp |-> 0, mant |-> <<>>]

\* the float nearest to (-1)^sign * (n + a fraction, when sticky) * 2^e
RoundNearestEven(sign, n, sticky, e) ==
    LET L == NBitLen(n) IN
    IF L = 0 THEN FZero
    ELSE IF L <= MantBits
    THEN [sign |-> sign, exp |-> e - (MantBits - L), mant |-> NShl(n, MantBits - L)]
    ELSE LET d    == L - MantBits
             sh   == NShr(n, d - 1)
             kept == NDivSmall(sh[1], 2)
             up   == kept[2] = 1 /\ (sh[2] \/ sticky \/ kept[1][1] % 2 = 1)
             inc  == IF up THEN NAdd(kept[1], <<1>>, 0) ELSE kept[1]
         IN  IF NBitLen(inc) > MantBits
             THEN [sign |-> sign, exp |-> e + d + 1, mant |-> NDivSmall(inc, 2)[1]]
             ELSE [sign |-> sign, exp |-> e + d, mant |-> inc]

FromInt(k) ==
    RoundNearestEven(IF k < 0 THEN 1 ELSE 0, NFromInt(IF k < 0 THEN -k ELSE k), FALSE, 0)

\* x / n for a float x and a positive int n
FDivInt(x, n) ==
    LET s  == IntBitLen(n) + 1
        qr == NDivSmall(NShl(x.mant, s), n)
    IN  RoundNearestEven(x.sign, qr[1], qr[2] # 0, x.exp - s)

FAdd(x, y) ==
    IF x.mant = <<>> THEN y
    ELSE IF y.mant = <<>> THEN x
    ELSE LET e == IF x.exp < y.exp THEN x.exp ELSE y.exp
             X == NShl(x.mant, x.exp - e)
             Y == NShl(y.mant, y.exp - e)
         IN  IF x.sign = y.sign THEN RoundNearestEven(x.sign, NAdd(X, Y, 0), FALSE, e)
             ELSE IF NLess(X, Y) THEN RoundNearestEven(y.sign, NSub(Y, X), FALSE, e)
             ELSE RoundNearestEven(x.sign, NSub(X, Y), FALSE, e)

\* the float a decimal literal n/d denotes (the nearest float to it)
Dec(n, d) == FDivInt(FromInt(n), d)

----------------------------------------------------------------------------
(* Text and dates.                                                         *)

Space == 32
Hyphen == 45
Digit0 == 48
WhiteSpace == {9, 10, 11, 12, 13, 28, 29, 30, 31, Space, 133, 160}

\* str.lstrip(): leading blanks only
RECURSIVE LeftStrip(_)
LeftStrip(s) == IF s # <<>> /\ Head(s) \in WhiteSpace THEN LeftStrip(Tail(s)) ELSE s

\* str.strip()
RECURSIVE Strip(_)
Strip(s) ==
    IF s = <<>> THEN s
    ELSE IF Head(s) \in WhiteSpace THEN Strip(Tail(s))
    ELSE IF s[Len(s)] \in WhiteSpace THEN Strip(SubSeq(s, 1, Len(s) - 1))
    ELSE s

\* Python's < on str: by code point, a proper prefix first
RECURSIVE StrLess(_, _)
StrLess(a, b) ==
    IF a = <<>> THEN b # <<>>
    ELSE /\ b # <<>>
         /\ \/ Head(a) < Head(b)
            \/ Head(a) = Head(b) /\ StrLess(Tail(a), Tail(b))

Digits2(n) == <<Digit0 + ((n \div 10) % 10), Digit0 + (n % 10)>>

Digits4(n) == Digits2(n \div 100) \o Digits2(n % 100)

\* str(session_date): YYYY-MM-DD
DateStr(d) == Digits4(d.year) \o <<Hyphen>> \o Digits2(d.month) \o <<Hyphen>> \o Digits2(d.day)

\* session_date.strftime("%Y-%m")
MonthStr(d) == Digits4(d.year) \o <<Hyphen>> \o Digits2(d.month)

\* the placeholder option of the Remove Buddy select box: "Select..."
SelectLabel == <<83, 101, 108, 101, 99, 116, 46, 46, 46>>

----------------------------------------------------------------------------
(* The document and the sheet.                                             *)

EmptyDoc == [buddies |-> <<>>, sessions |-> <<>>]

\* `data` of a run that stopped before load_data returned
Unbound == [unbound |-> TRUE]

BlankCell == [kind |-> "blank"]

\* text in A1 that json.loads rejects
GarbageCell == [kind |-> "garbage"]

\* json.dumps(data, ensure_ascii=False): JSON text, which json.loads reads back
\* to the same lists, strings and floats
Dumps(doc) == [kind |-> "json", value |-> doc]

\* the statuses of the connection in which get_db stops the script
GetDbFailures == {"no_secrets", "auth_failed", "no_sheet"}

Backends == {"ok", "io_failed"} \cup GetDbFailures

GetDbMessage(status) ==
    CASE status = "no_secrets" -> "Google Cloud credentials not found."
      [] status = "auth_failed" -> "Failed to authorize Google Sheets client."
      [] status = "no_sheet" -> "Could not find the Google Sheet named 'Badminton DB'."

\* a load_data whose except clause does not cover json.loads
ReadCellUnguarded(status, c) ==
    IF status = "io_failed" THEN EmptyDoc
    ELSE IF c.kind = "blank" THEN EmptyDoc
    ELSE IF c.kind = "garbage" THEN Unbound
    ELSE c.value

\* load_data once get_db returned a sheet
ReadCell(status, c) ==
    IF status = "io_failed" THEN EmptyDoc
    ELSE IF c.kind = "blank" THEN EmptyDoc
    ELSE IF c.kind = "garbage" THEN EmptyDoc
    ELSE c.value

Roles == {"Guest", "Admin", "Reporting User"}

Passwords == {"", "admin123", "report123"}

Authorized(user_role, password) ==
    \/ user_role = "Admin" /\ password = "admin123"
    \/ user_role = "Reporting User" /\ password = "report123"

\* the part of the page a run renders
Page(user_role, password) ==
    IF user_role = "Admin" /\ Authorized(user_role, password) THEN "admin"
    ELSE IF user_role = "Reporting User" /\ Authorized(user_role, password) THEN "report"
    ELSE "guest"

----------------------------------------------------------------------------
(* Lists.                                                                  *)

\* list.remove(x): drops the first element equal to x
RECURSIVE RemoveFirst(_, _)
RemoveFirst(s, x) ==
    IF s = <<>> THEN s
    ELSE IF Head(s) = x THEN Tail(s)
    ELSE <<Head(s)>> \o RemoveFirst(Tail(s), x)

InList(x, s) == \E i \in 1..Len(s) : s[i] = x

\* one insertion of a stable ascending sort on the key 'date'
RECURSIVE InsertByDate(_, _)
InsertByDate(s, x) ==
    IF s = <<>> THEN <<x>>
    ELSE IF StrLess(x.date, Head(s).date) THEN <<x>> \o s
    ELSE <<Head(s)>> \o InsertByDate(Tail(s), x)

\* the list left in insertion order
Unsorted(s) == s

\* sorted(sessions, key=lambda x: x['date'])
RECURSIVE SortedByDate(_)
SortedByDate(s) ==
    IF s = <<>> THEN s
    ELSE InsertByDate(SortedByDate(SubSeq(s, 1, Len(s) - 1)), s[Len(s)])

\* next((s for s in data["sessions"] if s["date"] == date_str), None):
\* the position of the first match, 0 for None
RECURSIVE FirstWithDate(_, _, _)
FirstWithDate(sessions, date_str, i) ==
    IF i > Len(sessions) THEN 0
    ELSE IF sessions[i].date = date_str THEN i
    ELSE FirstWithDate(sessions, date_str, i + 1)

ExistingSession(doc, date_str) == FirstWithDate(doc.sessions, date_str, 1)

\* default_cost of the number input
BaselineCost == Dec(1310, 100)

DefaultCost(doc, date_str) ==
    LET i == ExistingSession(doc, date_str)
    IN  IF i # 0 THEN doc.sessions[i].total_cost ELSE BaselineCost

DefaultAttendees(doc, date_str) ==
    LET i == ExistingSession(doc, date_str)
    IN  IF i # 0 THEN doc.sessions[i].attendees ELSE <<>>

\* the check boxes that start ticked: one box per buddy of the roster
DefaultChecked(doc, date_str) ==
    {doc.buddies[i] : i \in {j \in 1..Len(doc.buddies) :
                                InList(doc.buddies[j], DefaultAttendees(doc, date_str))}}

\* the loop over the check boxes: the ticked buddies, in roster order
Attendees(doc, checked) == SelectSeq(doc.buddies, LAMBDA b : b \in checked)

\* the whole cost charged to every attendee
WholeCost(court_cost, attendees) == court_cost

CostPerPerson(court_cost, attendees) == FDivInt(court_cost, Len(attendees))

NewSession(session_date, court_cost, attendees) ==
    [date            |-> DateStr(session_date),
     month           |-> MonthStr(session_date),
     total_cost      |-> court_cost,
     attendees       |-> attendees,
     cost_per_person |-> CostPerPerson(court_cost, attendees)]

\* an upsert that keeps the old record of the date
AppendedSessions(doc, session_date, court_cost, attendees) ==
    SortedByDate(Append(doc.sessions, NewSession(session_date, court_cost, attendees)))

\* the sessions after the save button's handler ran with a non-empty attendee list
UpsertedSessions(doc, session_date, court_cost, attendees) ==
    LET i    == ExistingSession(doc, DateStr(session_date))
        kept == IF i # 0 THEN RemoveFirst(doc.sessions, doc.sessions[i])
                ELSE doc.sessions
    IN  SortedByDate(Append(kept, NewSession(session_date, court_cost, attendees)))

\* games_played of the Remove Buddy warning
GamesPlayed(doc, buddy) ==
    Cardinality({i \in 1..Len(doc.sessions) : InList(buddy, doc.sessions[i].attendees)})

----------------------------------------------------------------------------
(* The report.                                                             *)

\* sorted(list(set(s['month'] for s in data['sessions'])), reverse=True), as a set
AvailableMonths(doc) == {doc.sessions[i].month : i \in 1..Len(doc.sessions)}

\* a report over every session, whatever its month
AllSessions(doc, selected_month) == doc.sessions

MonthSessions(doc, selected_month) ==
    SelectSeq(doc.sessions, LAMBDA s : s.month = selected_month)

RowOf(card, player) ==
    IF \E i \in 1..Len(card) : card[i].player = player
    THEN CHOOSE i \in 1..Len(card) : card[i].player = player
    ELSE 0

\* the body of the inner loop: one attendee of one session
Tally(card, player, cost_per_person) ==
    LET c == IF RowOf(card, player) = 0
             THEN Append(card, [player |-> player, Games |-> 0, Owes |-> FZero])
             ELSE card
        i == RowOf(c, player)
    IN  [c EXCEPT ![i].Games = @ + 1, ![i].Owes = FAdd(@, cost_per_person)]

RECURSIVE TallySession(_, _, _)
TallySession(card, attendees, cost_per_person) ==
    IF attendees = <<>> THEN card
    ELSE TallySession(Tally(card, Head(attendees), cost_per_person),
                      Tail(attendees), cost_per_person)

RECURSIVE TallySessions(_, _)
TallySessions(card, month_sessions) ==
    IF month_sessions = <<>> THEN card
    ELSE TallySessions(TallySession(card, Head(month_sessions).attendees,
                                    Head(month_sessions).cost_per_person),
                       Tail(month_sessions))

\* report_card: the dict's items in insertion order
ReportCard(doc, selected_month) == TallySessions(<<>>, MonthSessions(doc, selected_month))

----------------------------------------------------------------------------
(* Script runs. A run starts with Load; a button handler, or the report,   *)
(* ends it.                                                                *)

Step(op, u, arg, out) == [op |-> op, user |-> u, arg |-> arg, out |-> out]

\* lines 63-86: load_data, then the login side bar
Load(u) ==
    /\ IF backend \in GetDbFailures
       THEN /\ pc' = [pc EXCEPT ![u] = "stopped"]
            /\ data' = [data EXCEPT ![u] = Unbound]
            /\ last' = Step("load", u, <<>>, GetDbMessage(backend))
       ELSE \E user_role \in Roles, password \in Passwords :
            /\ pc' = [pc EXCEPT ![u] = Page(user_role, password)]
            /\ data' = [data EXCEPT ![u] = ReadCell(backend, cell)]
            /\ last' = Step("load", u, <<>>, "")
    /\ UNCHANGED <<cell, backend>>

\* a handler that ends without calling save_data
Reject(u, op, arg, message) ==
    /\ pc' = [pc EXCEPT ![u] = "idle"]
    /\ last' = Step(op, u, arg, message)
    /\ UNCHANGED <<cell, backend, data>>

\* a save that keeps the buddies the sheet holds and `doc` lacks
MergedCell(old, doc) ==
    IF old.kind # "json" THEN Dumps(doc)
    ELSE Dumps([doc EXCEPT !.buddies =
                   @ \o SelectSeq(old.value.buddies, LAMBDA b : ~InList(b, doc.buddies))])

\* sheet.update_acell('A1', json_str): the new content of a cell that held `old`
UpdatedCell(old, doc) == Dumps(doc)

\* a handler that changed `data` to doc and calls save_data(data)
SaveData(u, doc, op, arg, message) ==
    /\ data' = [data EXCEPT ![u] = doc]
    /\ IF backend = "ok"
       THEN /\ cell' = UpdatedCell(cell, doc)
            /\ pc' = [pc EXCEPT ![u] = "idle"]
            /\ last' = Step(op, u, arg, message)
       ELSE /\ cell' = cell
            /\ pc' = [pc EXCEPT ![u] = "stopped"]
            /\ last' = Step(op, u, arg,
                            IF backend \in GetDbFailures THEN GetDbMessage(backend)
                            ELSE "exception")
    /\ UNCHANGED backend

\* lines 94-104
AddBuddy(u, raw) ==
    /\ pc[u] = "admin"
    /\ LET new_buddy == Strip(raw) IN
       IF new_buddy = <<>>
       THEN Reject(u, "addBuddy", <<raw>>, "Name cannot be empty.")
       ELSE IF InList(new_buddy, data[u].buddies)
       THEN Reject(u, "addBuddy", <<raw>>, "is already in the list!")
       ELSE SaveData(u, [data[u] EXCEPT !.buddies = Append(@, new_buddy)],
                     "addBuddy", <<raw>>, "Added")

\* a removal that also strikes the buddy from the recorded sessions
WithoutBuddyAnywhere(doc, buddy_to_remove) ==
    [buddies  |-> RemoveFirst(doc.buddies, buddy_to_remove),
     sessions |-> [i \in 1..Len(doc.sessions) |->
                      [doc.sessions[i] EXCEPT !.attendees = RemoveFirst(@, buddy_to_remove)]]]

\* data["buddies"].remove(buddy_to_remove)
WithoutBuddy(doc, buddy_to_remove) ==
    [doc EXCEPT !.buddies = RemoveFirst(@, buddy_to_remove)]

\* lines 108-123: an option of the select box, then the confirm button
RemoveBuddy(u, buddy_to_remove) ==
    /\ pc[u] = "admin"
    /\ InList(buddy_to_remove, <<SelectLabel>> \o data[u].buddies)
    /\ buddy_to_remove # SelectLabel
    /\ SaveData(u, WithoutBuddy(data[u], buddy_to_remove),
                "removeBuddy", <<buddy_to_remove, GamesPlayed(data[u], buddy_to_remove)>>,
                "Removed")

\* lines 130-182: the date, the cost, the ticked boxes, then the save button
SaveSession(u, session_date, court_cost, checked) ==
    /\ pc[u] = "admin"
    /\ checked \subseteq {data[u].buddies[i] : i \in 1..Len(data[u].buddies)}
    /\ LET attendees == Attendees(data[u], checked)
           arg       == <<session_date, court_cost, checked,
                          IF ExistingSession(data[u], DateStr(session_date)) # 0
                          THEN "Update Session" ELSE "Save Session">>
       IN  IF Len(attendees) > 0
           THEN SaveData(u, [data[u] EXCEPT !.sessions =
                                UpsertedSessions(data[u], session_date, court_cost, attendees)],
                         "saveSession", arg, "saved to Google Sheets!")
           ELSE Reject(u, "saveSession", arg, "Select at least one buddy.")

\* lines 185-210: the summary table of the month picked
Report(u, selected_month) ==
    /\ pc[u] \in {"admin", "report"}
    /\ selected_month \in AvailableMonths(data[u])
    /\ pc' = [pc EXCEPT ![u] = "idle"]
    /\ last' = Step("report", u, <<selected_month>>, ReportCard(data[u], selected_month))
    /\ UNCHANGED <<cell, backend, data>>

\* the environment: the connection starts or stops failing
BackendChanges(status) ==
    /\ status # backend
    /\ backend' = status
    /\ last' = Step("backend", 0, <<status>>, "")
    /\ UNCHANGED <<cell, pc, data>>

\* the environment: somebody clears or overtypes cell A1 in the sheet
CellEdited(content) ==
    /\ content # cell
    /\ cell' = content
    /\ last' = Step("edit", 0, <<>>, "")
    /\ UNCHANGED <<backend, pc, data>>

----------------------------------------------------------------------------
(* Inputs.                                                                 *)

MaxPad == 1

Pad(k) == [i \in 1..k |-> Space]

\* what can be typed for a name: each name with blanks around it, and blanks alone
Typed(names) ==
    {Pad(l) \o n \o Pad(r) : n \in names, l \in 0..MaxPad, r \in 0..MaxPad}
        \cup {Pad(k) : k \in 0..MaxPad}

Ana == <<65, 110, 97>>
Bo == <<66, 111>>
Cy == <<67, 121>>

Day(y, m, d) == [year |-> y, month |-> m, day |-> d]

Jan05 == Day(2025, 1, 5)
Jan12 == Day(2025, 1, 12)
Feb02 == Day(2025, 2, 2)

Names == {Ana, Bo}

Dates == {Jan05, Jan12, Feb02}

Costs == {BaselineCost, FromInt(20)}

Months == {MonthStr(d) : d \in Dates}

InitWith(users) ==
    /\ cell = BlankCell
    /\ backend = "ok"
    /\ pc = [u \in users |-> "idle"]
    /\ data = [u \in users |-> Unbound]
    /\ last = Step("init", 0, <<>>, "")

(* One browser session on a healthy connection: the whole admin page.      *)

Init == InitWith({1})

Next ==
    \/ \E u \in DOMAIN pc : Load(u)
    \/ \E u \in DOMAIN pc, raw \in Names \cup {<<>>} : AddBuddy(u, raw)
    \/ \E u \in DOMAIN pc, buddy \in Names : RemoveBuddy(u, buddy)
    \/ \E u \in DOMAIN pc, d \in Dates, c \in Costs, checked \in SUBSET Names :
          SaveSession(u, d, c, checked)
    \/ \E u \in DOMAIN pc, m \in Months : Report(u, m)

Spec == Init /\ [][Next]_vars

(* The roster alone, with everything that can be typed for a name.         *)

RosterNames == {Ana, Bo, Ana \o <<Space>> \o Bo, SelectLabel}

NextRoster ==
    \/ \E u \in DOMAIN pc : Load(u)
    \/ \E u \in DOMAIN pc, raw \in Typed(RosterNames) : AddBuddy(u, raw)
    \/ \E u \in DOMAIN pc, buddy \in RosterNames : RemoveBuddy(u, buddy)

SpecRoster == Init /\ [][NextRoster]_vars

(* One date, three buddies, and the costs the number input accepts.        *)

CostNames == {Ana, Bo, Cy}

CourtCosts == {BaselineCost, FromInt(-5), Dec(130000001, 10)}

NextCost ==
    \/ \E u \in DOMAIN pc : Load(u)
    \/ \E u \in DOMAIN pc, raw \in CostNames : AddBuddy(u, raw)
    \/ \E u \in DOMAIN pc, buddy \in CostNames : RemoveBuddy(u, buddy)
    \/ \E u \in DOMAIN pc, c \in CourtCosts, checked \in SUBSET CostNames :
          SaveSession(u, Jan05, c, checked)

SpecCost == Init /\ [][NextCost]_vars

(* A connection that fails and a cell that is edited by hand.              *)

NextStore ==
    \/ \E u \in DOMAIN pc : Load(u)
    \/ \E u \in DOMAIN pc, raw \in Names : AddBuddy(u, raw)
    \/ \E status \in Backends : BackendChanges(status)
    \/ \E content \in {BlankCell, GarbageCell} : CellEdited(content)

SpecStore == Init /\ [][NextStore]_vars

(* Two browser sessions on the same sheet.                                 *)

InitConc == InitWith({1, 2})

NextConc ==
    \/ \E u \in DOMAIN pc : Load(u)
    \/ \E u \in DOMAIN pc, raw \in Names : AddBuddy(u, raw)
    \/ \E u \in DOMAIN pc, buddy \in Names : RemoveBuddy(u, buddy)
    \/ \E u \in DOMAIN pc, checked \in SUBSET Names :
          SaveSession(u, Jan05, BaselineCost, checked)

SpecConc == InitConc /\ [][NextConc]_vars

----------------------------------------------------------------------------
(* Properties.                                                             *)

Users == DOMAIN pc

Bound(u) == data[u] # Unbound

Range(s) == {s[i] : i \in 1..Len(s)}

NoRepeats(s) == \A i, j \in 1..Len(s) : s[i] = s[j] => i = j

\* the documents of a state: every session's copy and the one in the sheet
Documents ==
    {data[u] : u \in {v \in Users : Bound(v)}}
        \cup (IF cell.kind = "json" THEN {cell.value} ELSE {})

Saved == {"Added", "Removed", "saved to Google Sheets!"}

AscendingDates(sessions) ==
    \A i \in 1..(Len(sessions) - 1) : StrLess(sessions[i].date, sessions[i + 1].date)

\* C1: after any sequence of addBuddy, removeBuddy and upsertSession from the
\* empty document, accepted or rejected, the sessions are in ascending order of
\* date and no two sessions have the same date.
C1_SessionsSortedUnique == \A doc \in Documents : AscendingDates(doc.sessions)

\* a session was saved for a date before the dates already recorded
C1_Witness ==
    /\ last.op = "saveSession" /\ last.out \in Saved
    /\ Len(data[last.user].sessions) = 3
    /\ data[last.user].sessions[1].date = DateStr(last.arg[1])
    /\ cell = Dumps(data[last.user])

SessionsOn(doc, date_str) == SelectSeq(doc.sessions, LAMBDA s : s.date = date_str)

SessionsOff(doc, date_str) == SelectSeq(doc.sessions, LAMBDA s : s.date # date_str)

\* C2: a successful upsert for date d leaves exactly one session with date d,
\* whose total_cost, attendees and cost_per_person are those of this call (so of
\* the second call when the date was saved before), and leaves every session
\* with another date as it was.
C2_UpsertOverwrites ==
    [][(last'.op = "saveSession" /\ last'.out \in Saved) =>
        LET u   == last'.user
            d   == DateStr(last'.arg[1])
            now == SessionsOn(data'[u], d)
        IN  /\ Len(now) = 1
            /\ now[1].total_cost = last'.arg[2]
            /\ Range(now[1].attendees) = last'.arg[3]
            /\ NoRepeats(now[1].attendees)
            /\ now[1].cost_per_person = FDivInt(last'.arg[2], Cardinality(last'.arg[3]))
            /\ SessionsOff(data'[u], d) = SessionsOff(data[u], d)
            /\ cell' = Dumps(data'[u])]_vars

\* a date that had a session was saved again, beside a session of another date
C2_Witness ==
    /\ last.op = "saveSession" /\ last.out \in Saved
    /\ last.arg[4] = "Update Session"
    /\ Len(data[last.user].sessions) >= 2
    /\ last.arg[2] # BaselineCost
    /\ Cardinality(last.arg[3]) = 1

\* C4: removing a buddy of the roster removes exactly that name, keeps the
\* order of the others and leaves every session as it was, also when the name
\* is an attendee of K >= 1 sessions; every month's summary stays the same.
C4_RemoveBuddyKeepsSessions ==
    [][(last'.op = "removeBuddy" /\ last'.out \in Saved) =>
        LET u    == last'.user
            name == last'.arg[1]
        IN  /\ InList(name, data[u].buddies)
            /\ data'[u].buddies = SelectSeq(data[u].buddies, LAMBDA b : b # name)
            /\ data'[u].sessions = data[u].sessions
            /\ \A m \in AvailableMonths(data[u]) :
                  ReportCard(data'[u], m) = ReportCard(data[u], m)
            /\ cell' = Dumps(data'[u])]_vars

\* a buddy recorded in two sessions was removed and is still in both
C4_Witness ==
    /\ last.op = "removeBuddy" /\ last.out \in Saved
    /\ last.arg[2] = 2
    /\ GamesPlayed(data[last.user], last.arg[1]) = 2
    /\ ~InList(last.arg[1], data[last.user].buddies)

RECURSIVE SumOwed(_, _)
SumOwed(sessions, player) ==
    IF sessions = <<>> THEN FZero
    ELSE LET before == SumOwed(SubSeq(sessions, 1, Len(sessions) - 1), player)
             s      == sessions[Len(sessions)]
         IN  IF InList(player, s.attendees) THEN FAdd(before, s.cost_per_person)
             ELSE before

RECURSIVE SumGames(_)
SumGames(card) == IF card = <<>> THEN 0 ELSE Head(card).Games + SumGames(Tail(card))

RECURSIVE SumAttendees(_)
SumAttendees(sessions) ==
    IF sessions = <<>> THEN 0 ELSE Len(Head(sessions).attendees) + SumAttendees(Tail(sessions))

\* C9: the monthly summary has a row for p exactly when p attended a session
\* of the month; the row's games is the number of the month's sessions that
\* list p and its owed is the sum of their cost_per_person; the games add up to
\* the attendee counts of the month's sessions.
C9_MonthlySummary ==
    last.op = "report" =>
        LET doc    == data[last.user]
            card   == last.out
            ofMonth == {i \in 1..Len(doc.sessions) : doc.sessions[i].month = last.arg[1]}
            listing(p) == {i \in ofMonth : InList(p, doc.sessions[i].attendees)}
            played == UNION {Range(doc.sessions[i].attendees) : i \in ofMonth}
        IN  /\ {card[i].player : i \in 1..Len(card)} = played
            /\ \A i, j \in 1..Len(card) : card[i].player = card[j].player => i = j
            /\ \A i \in 1..Len(card) :
                  /\ card[i].Games = Cardinality(listing(card[i].player))
                  /\ card[i].Owes =
                        SumOwed(SelectSeq(doc.sessions, LAMBDA s : s.month = last.arg[1]),
                                card[i].player)
            /\ SumGames(card) =
                  SumAttendees(SelectSeq(doc.sessions, LAMBDA s : s.month = last.arg[1]))

\* a report of a month with two sessions, beside a session of another month,
\* with a player of two games and a buddy of the roster who has no row
C9_Witness ==
    /\ last.op = "report"
    /\ Len(MonthSessions(data[last.user], last.arg[1])) = 2
    /\ Len(data[last.user].sessions) = 3
    /\ \E i \in 1..Len(last.out) : last.out[i].Games = 2
    /\ \E b \in Range(data[last.user].buddies) :
          \A i \in 1..Len(last.out) : last.out[i].player # b
    /\ \E i \in 1..Len(last.out) : ~InList(last.out[i].player, data[last.user].buddies)

Prepopulated ==
    \A u \in {v \in Users : Bound(v)} : \A d \in Dates :
        LET i == ExistingSession(data[u], DateStr(d)) IN
        IF i # 0
        THEN /\ DefaultCost(data[u], DateStr(d)) = data[u].sessions[i].total_cost
             /\ DefaultChecked(data[u], DateStr(d)) = Range(data[u].sessions[i].attendees)
        ELSE /\ DefaultCost(data[u], DateStr(d)) = BaselineCost
             /\ DefaultChecked(data[u], DateStr(d)) = {}

\* C10: in every reachable state, for a date that has a session the cost and
\* the attendees offered by the form are those of the record, so saving the
\* form untouched stores the same total_cost and the same attendees; for a
\* date without a session the form offers the baseline cost and no attendee.
C10_EditPrepopulates ==
    [][/\ Prepopulated'
       /\ (/\ last'.op = "saveSession"
           /\ last'.arg[4] = "Update Session"
           /\ last'.arg[2] = DefaultCost(data[last'.user], DateStr(last'.arg[1]))
           /\ last'.arg[3] = DefaultChecked(data[last'.user], DateStr(last'.arg[1])))
          => LET u   == last'.user
                 d   == DateStr(last'.arg[1])
                 was == data[u].sessions[ExistingSession(data[u], d)]
                 now == SessionsOn(data'[u], d)
             IN  /\ last'.out \in Saved
                 /\ Len(now) = 1
                 /\ now[1].total_cost = was.total_cost
                 /\ Range(now[1].attendees) = Range(was.attendees)]_vars

IsTrimOf(t, raw) ==
    \E l, r \in 0..Len(raw) :
        /\ l + r <= Len(raw)
        /\ t = SubSeq(raw, l + 1, Len(raw) - r)
        /\ \A k \in 1..l : raw[k] \in WhiteSpace
        /\ \A k \in (Len(raw) - r + 1)..Len(raw) : raw[k] \in WhiteSpace
        /\ t # <<>> => t[1] \notin WhiteSpace /\ t[Len(t)] \notin WhiteSpace

Trimmed(raw) ==
    CHOOSE t \in {SubSeq(raw, a, b) : a \in 1..(Len(raw) + 1), b \in 0..Len(raw)} :
        IsTrimOf(t, raw)

RosterValid ==
    \A doc \in Documents :
        /\ NoRepeats(doc.buddies)
        /\ \A i \in 1..Len(doc.buddies) : doc.buddies[i] # <<>>

\* C3: addBuddy with a name that, once its surrounding whitespace is trimmed,
\* is in the roster signals the duplicate-name error and changes neither the
\* roster nor the sheet; an empty or blank name signals the empty-name error
\* and changes nothing; otherwise the trimmed name is appended at the end and
\* saved. So no roster ever holds a name twice or an empty name.
C3_RosterUnique ==
    [][/\ RosterValid'
       /\ last'.op = "addBuddy" =>
            LET u    == last'.user
                name == Trimmed(last'.arg[1])
            IN  IF name = <<>>
                THEN /\ last'.out = "Name cannot be empty."
                     /\ data' = data /\ cell' = cell
                ELSE IF name \in Range(data[u].buddies)
                THEN /\ last'.out = "is already in the list!"
                     /\ data' = data /\ cell' = cell
                ELSE /\ last'.out = "Added"
                     /\ data'[u] = [data[u] EXCEPT !.buddies = Append(@, name)]
                     /\ cell' = Dumps(data'[u])]_vars

\* a name typed with blanks around it was refused as a duplicate
C3_Witness ==
    /\ last.op = "addBuddy"
    /\ last.out = "is already in the list!"
    /\ Head(last.arg[1]) = Space
    /\ last.arg[1][Len(last.arg[1])] = Space
    /\ Len(data[last.user].buddies) = 2
    /\ cell = Dumps(data[last.user])

\* float operations the cost properties are stated with
\* x * n for a float x and a non-negative int n
FMulInt(x, n) == RoundNearestEven(x.sign, NMulSmall(x.mant, n, 0), FALSE, x.exp)

FNeg(x) == IF x.mant = <<>> THEN x ELSE [x EXCEPT !.sign = 1 - x.sign]

FAbs(x) == [x EXCEPT !.sign = 0]

MagLess(x, y) ==
    IF x.mant = <<>> THEN y.mant # <<>>
    ELSE /\ y.mant # <<>>
         /\ \/ x.exp < y.exp
            \/ x.exp = y.exp /\ NLess(x.mant, y.mant)

FLess(x, y) ==
    IF x.sign # y.sign THEN x.sign = 1
    ELSE IF x.sign = 0 THEN MagLess(x, y) ELSE MagLess(y, x)

FSub(x, y) == FAdd(x, FNeg(y))

\* 1e-9 as a float: 0x1.12e0be826d695p-30
Tolerance == [sign |-> 0, exp |-> -82, mant |-> <<5781, 310, 762, 604, 1>>]

\* the distance between x and the next float of larger magnitude
Ulp(x) == [sign |-> 0, exp |-> x.exp - (MantBits - 1), mant |-> NShl(<<1>>, MantBits - 1)]

SplitError(s) ==
    FAbs(FSub(FMulInt(s.cost_per_person, Len(s.attendees)), s.total_cost))

AllSessionsOf(docs) == UNION {Range(doc.sessions) : doc \in docs}

RejectsNoAttendee ==
    (last'.op = "saveSession" /\ last'.arg[3] = {}) =>
        /\ last'.out = "Select at least one buddy."
        /\ data' = data
        /\ cell' = cell

SplitWithinTolerance ==
    \A s \in AllSessionsOf(Documents) :
        /\ Len(s.attendees) >= 1
        /\ FLess(SplitError(s), Tolerance)

\* C5 as claimed: every session has at least one attendee and
\* cost_per_person * len(attendees) is within 1e-9 of total_cost; an upsert with
\* no attendee is refused, saves nothing and changes no document.
C5_CostSplit == []SplitWithinTolerance /\ [][RejectsNoAttendee]_vars

SplitWithinUlp ==
    \A s \in AllSessionsOf(Documents) :
        /\ Len(s.attendees) >= 1
        /\ ~FLess(Ulp(s.total_cost), SplitError(s))
        /\ MagLess(s.total_cost, FromInt(2^23)) => FLess(SplitError(s), Tolerance)

\* C5 as amended: every session has at least one attendee and
\* cost_per_person * len(attendees) is within one unit in the last place of
\* total_cost, hence within 1e-9 of it when |total_cost| < 2^23; an upsert with
\* no attendee is refused, saves nothing and changes no document.
C5_CostSplitAmended == []SplitWithinUlp /\ [][RejectsNoAttendee]_vars

\* an upsert with no attendee was refused for a date whose session splits a
\* cost above 2^23 among three attendees, with a rounding error
C5_Witness ==
    /\ last.op = "saveSession"
    /\ last.out = "Select at least one buddy."
    /\ \E s \in Range(data[last.user].sessions) :
          /\ s.date = DateStr(last.arg[1])
          /\ Len(s.attendees) = 3
          /\ SplitError(s) = Ulp(s.total_cost)
    /\ cell = Dumps(data[last.user])

\* C6: no session of any document has a total_cost below zero, whatever cost
\* was submitted.
C6_NonNegativeCost ==
    \A s \in AllSessionsOf(Documents) : ~FLess(s.total_cost, FZero)

\* C7 as claimed: a load that meets an empty cell, a failing connection or
\* unparsable content returns the empty document and the run goes on.
C7_LoadFailsSoft ==
    (last.op = "load" /\ (backend # "ok" \/ cell.kind # "json")) =>
        /\ pc[last.user] # "stopped"
        /\ data[last.user] = EmptyDoc

\* C7 as amended: a load that meets an empty cell, unparsable content or a
\* failing read of the cell returns the empty document and the run goes on;
\* when the credentials, the authorization or the sheet lookup fails, the run
\* shows the error and stops without a document.
C7_LoadAmended ==
    last.op = "load" =>
        IF backend \in GetDbFailures
        THEN /\ pc[last.user] = "stopped"
             /\ data[last.user] = Unbound
             /\ last.out = GetDbMessage(backend)
        ELSE /\ pc[last.user] \in {"admin", "report", "guest"}
             /\ data[last.user] = IF backend = "ok" /\ cell.kind = "json"
                                  THEN cell.value ELSE EmptyDoc

\* a load read unparsable content and went on with the empty document
C7_Witness ==
    /\ last.op = "load"
    /\ backend = "ok"
    /\ cell = GarbageCell
    /\ pc[last.user] = "admin"
    /\ data[last.user] = EmptyDoc

\* C8: whenever the sheet changes, it becomes the whole document of the session
\* that saved, which is that session's own copy changed by its own handler:
\* what another session saved after this one loaded is not in it.
C8_LastWriterWins ==
    [][cell' # cell =>
        LET u      == last'.user
            own    == data[u]
            new    == cell'.value
            added  == IF last'.op = "addBuddy" THEN {Strip(last'.arg[1])} ELSE {}
            struck == IF last'.op = "removeBuddy" THEN {last'.arg[1]} ELSE {}
            dated  == IF last'.op = "saveSession" THEN {DateStr(last'.arg[1])} ELSE {}
        IN  /\ last'.out \in Saved
            /\ cell' = Dumps(data'[u])
            /\ Range(new.buddies) \ Range(own.buddies) \subseteq added
            /\ Range(own.buddies) \ Range(new.buddies) \subseteq struck
            /\ \A s \in Range(new.sessions) \ Range(own.sessions) : s.date \in dated
            /\ \A s \in Range(own.sessions) \ Range(new.sessions) : s.date \in dated]_vars

\* both sessions loaded the empty document; the first saved Ana, the second
\* then saved Bo, and the sheet holds Bo alone
C8_Witness ==
    /\ last.op = "addBuddy" /\ last.out = "Added" /\ last.user = 2
    /\ pc[1] = "idle"
    /\ data[1] = [buddies |-> <<Ana>>, sessions |-> <<>>]
    /\ data[2] = [buddies |-> <<Bo>>, sessions |-> <<>>]
    /\ cell = Dumps(data[2])

====
